---- MODULE Spec2Model ----
(***************************************************************************)
(* fabric-director (src/main.go): the reroute controller (setReroute and   *)
(* the /reroute and /noreroute handlers), the candidate table and the      *)
(* probe loop that writes it, over a model of the kernel objects the       *)
(* program drives through netlink (the "local" dummy link, the static      *)
(* routes of the configured prefixes), and the start of main: teardownGRE  *)
(* and the loop that builds the GRE tunnels of the mesh.                   *)
(*                                                                         *)
(* net/http serves every request on a goroutine of its own and the probe   *)
(* loop runs on the main goroutine: the handlers and the loop are          *)
(* interleaved statement by statement, one action per statement that       *)
(* touches shared state.                                                   *)
(***************************************************************************)
EXTENDS Integers, Sequences, FiniteSets, TLC

(* ------------------------------------------------------------------ *)
(* Bounds of the model                                                 *)
(* ------------------------------------------------------------------ *)

\* Largest average round-trip time a probe reports (abstract time units).
MaxLatency == 3

\* Largest packet loss a probe reports (abstract units; 0 is no loss).
MaxLoss == 1

\* Number of requests net/http serves at the same time.
NumHandlers == 2

(* ------------------------------------------------------------------ *)
(* Configuration (type Config, read once in main)                      *)
(* ------------------------------------------------------------------ *)

LocalID == 1

LatencyThreshold == 2

LossThreshold == 1

Prefix4 == "172.17.104."

Prefix6 == "fd00::"

\* config.Prefixes: one IPv4 and one IPv6 prefix, in configuration order.
Prefixes == << "192.0.2.0/24", "2001:db8::/48" >>

\* ipNet.IP.To4() != nil in addRoute
IsV4(prefix) == prefix = "192.0.2.0/24"

\* type Node
MkNode(id, ip, latency) == [ID |-> id, IP |-> ip, Latency |-> latency]

\* config.Nodes: node name to node; A is the local node.
ConfigNodes ==
    [n \in {"A", "B", "C"} |->
        CASE n = "A" -> MkNode(1, "198.51.100.1", 0)
          [] n = "B" -> MkNode(2, "198.51.100.2", 0)
          [] n = "C" -> MkNode(3, "198.51.100.3", 0)]

\* The zero value of Node, which a map lookup of a missing key returns.
ZeroNode == MkNode(0, "", 0)

\* n := config.Nodes[to]
LookupNode(to) == IF to \in DOMAIN ConfigNodes THEN ConfigNodes[to] ELSE ZeroNode

\* A nil *Node.
NilPtr == [isNil |-> TRUE]

\* The values of the "to" query parameter the model issues ("" is absent).
RequestNames == {"", "B", "C"}

\* Two more values of "to": the local node's name and a name config.Nodes lacks.
OtherNames == {"A", "X"}

Handlers == 1..NumHandlers

\* internalIP(prefix, node, 0): the prefix followed by the node ID in decimal.
internalIP(prefix, node) == << prefix, node >>

\* internalIP(prefix, node, mask) with a mask: the address followed by "/mask".
internalCIDR(prefix, node, mask) == << prefix, node, mask >>

\* Interface names are a pair: the first three characters and the rest.
\* "fd-"+name in main:
TunnelName(name) == << "fd-", name >>

\* strings.HasPrefix(iface.Attrs().Name, "fd-")
HasFabricPrefix(iface) == iface[1] = "fd-"

\* The uplink, an interface that is not of the fabric.
Uplink == << "eth", "0" >>

PrefixSet == {Prefixes[i] : i \in 1..Len(Prefixes)}

\* The nodes the loops over config.Nodes do not skip: node.ID != config.LocalID.
PeerNames == {n \in DOMAIN ConfigNodes : ConfigNodes[n].ID # LocalID}

(* ------------------------------------------------------------------ *)
(* State                                                               *)
(* ------------------------------------------------------------------ *)

VARIABLES
    loopVarShared,        \* the build's range-loop semantics: one variable per loop (Go < 1.22) or per iteration
    candidateNodes,       \* var candidateNodes map[string]Node
    metricIsRerouting,    \* gauge fabric_director_is_rerouting
    metricCandidateNodes, \* gauge fabric_director_candidate_nodes
    metricNodeLatency,    \* gauge vector fabric_director_node_latency, by dst
    localLink,            \* kernel: the dummy link "local" exists (pf-net handles the prefixes locally)
    routes,               \* kernel: per destination prefix, the gateways of its static routes
    crashed,              \* the runtime ended the process (fatal error: concurrent map iteration and map write)
    pending,              \* probe loop: the nodes the running tick has not reached yet
    pc,                   \* per request goroutine: the statement it is at
    req,                  \* per request goroutine: the request it serves
    to,                   \* /reroute handler local: to
    node,                 \* /reroute handler local: node (*Node)
    scan,                 \* closestNode locals: closest, closestName
    visited,              \* closestNode: the keys the range loop has produced
    added,                \* closestNode: the keys inserted in the map since the range loop began
    idx,                  \* setReroute: position of the range loop over prefixes
    err,                  \* what setReroute returned to the handler (or that the handler panicked)
    resp,                 \* what the handler wrote to the http.ResponseWriter
    log,                  \* history: the kernel operations this call has issued, with their outcome
    before,               \* history: the kernel state when this call began
    coexisted,            \* history: the names that were closest in a table that existed during this scan
    last,                 \* history: the previous call
    history,              \* whether the specification keeps the two call histories, before and last
    phase,                \* main: "start", "teardown" (in teardownGRE's loop), "mesh" (in the tunnel loop), "serving", "exited"
    down,                 \* the flag -d
    links,                \* kernel: the interfaces other than "local", by name
    ifaces,               \* teardownGRE: the listed interfaces its range loop has not reached yet
    meshPending,          \* main: the nodes the tunnel loop has not reached yet
    listed,               \* history: the interfaces netlink.LinkList returned
    startLog              \* history: the deletions and the addGRE calls main made, with their outcome

vars == << loopVarShared, candidateNodes, metricIsRerouting, metricCandidateNodes,
           metricNodeLatency, localLink, routes, crashed, pending, pc, req, to, node,
           scan, visited, added, idx, err, resp, log, before, coexisted, last, history,
           phase, down, links, ifaces, meshPending, listed, startLog >>

kernelVars == << localLink, routes >>
startVars == << phase, down, links, ifaces, meshPending, listed, startLog >>
histVars == << last, history >>
probeVars == << candidateNodes, metricCandidateNodes, metricNodeLatency, pending >>
scanVars == << scan, visited, added, coexisted >>

\* The reroute state as the kernel and the gauge hold it.
Kernel == [link |-> localLink, routes |-> routes, metric |-> metricIsRerouting]

NoRoutes == [p \in PrefixSet |-> << >>]

\* The two reroute states: handled locally with no route and the flag at 0, and
\* rerouted to the node of the given ID.
Direct == [link |-> TRUE, routes |-> NoRoutes, metric |-> 0]

ReroutedTo(id) ==
    [link |-> FALSE,
     routes |-> [p \in PrefixSet |->
                   << IF IsV4(p) THEN internalIP(Prefix4, id) ELSE internalIP(Prefix6, id) >>],
     metric |-> 1]

NoRequest == [kind |-> "", to |-> ""]
NoScan == [closest |-> NilPtr, closestName |-> ""]
NoCall == [kind |-> "", id |-> 0, err |-> "", before |-> << >>]

(* ------------------------------------------------------------------ *)
(* The kernel operations the program calls (netlink, net.sh)           *)
(* ------------------------------------------------------------------ *)

\* Each returns the kernel object after the call and the error ("" is nil). A call
\* can fail for a reason of the kernel's own (no memory, no permission, no path to
\* the gateway), whatever the state: that is `fault`, reported as "EFAULT".

\* netlink.RouteAdd: NLM_F_CREATE|NLM_F_EXCL, so a route to a destination that has
\* one (same priority) is refused with EEXIST.
RouteAdd(rt, dst, gw, fault) ==
    IF fault THEN [routes |-> rt, err |-> "EFAULT"]
    ELSE IF rt[dst] # << >> THEN [routes |-> rt, err |-> "EEXIST"]
    ELSE [routes |-> [rt EXCEPT ![dst] = Append(@, gw)], err |-> ""]

\* netlink.RouteDel of the route to dst: ESRCH when there is none.
RouteDel(rt, dst, fault) ==
    IF fault THEN [routes |-> rt, err |-> "EFAULT"]
    ELSE IF rt[dst] = << >> THEN [routes |-> rt, err |-> "ESRCH"]
    ELSE [routes |-> [rt EXCEPT ![dst] = Tail(@)], err |-> ""]

\* netlink.LinkDel of the dummy link "local": ENODEV when there is no such link.
LinkDel(link, fault) ==
    IF fault THEN [link |-> link, err |-> "EFAULT"]
    ELSE IF ~link THEN [link |-> link, err |-> "ENODEV"]
    ELSE [link |-> FALSE, err |-> ""]

\* exec.Command("/opt/packetframe/net.sh").Run(): brings local handling up.
NetSh(link, fault) ==
    IF fault THEN [link |-> link, err |-> "EFAULT"]
    ELSE [link |-> TRUE, err |-> ""]

\* An interface as the kernel holds it.
NewLink(remote) == [remote |-> remote, addrs |-> {}, up |-> FALSE]

\* netlink.LinkList: the names of the interfaces.
LinkList(ls, fault) ==
    IF fault THEN [list |-> {}, err |-> "EFAULT"] ELSE [list |-> DOMAIN ls, err |-> ""]

\* netlink.LinkDel of a listed interface.
IfaceDel(ls, name, fault) ==
    IF fault THEN [links |-> ls, err |-> "EFAULT"]
    ELSE IF name \notin DOMAIN ls THEN [links |-> ls, err |-> "ENODEV"]
    ELSE [links |-> [i \in DOMAIN ls \ {name} |-> ls[i]], err |-> ""]

\* netlink.LinkAdd of a GRE tunnel: EEXIST when an interface has the name.
LinkAdd(ls, name, remote, fault) ==
    IF fault THEN [links |-> ls, err |-> "EFAULT"]
    ELSE IF name \in DOMAIN ls THEN [links |-> ls, err |-> "EEXIST"]
    ELSE [links |-> [i \in DOMAIN ls \cup {name} |->
                        IF i = name THEN NewLink(remote) ELSE ls[i]],
          err |-> ""]

\* netlink.AddrAdd
AddrAdd(ls, name, addr, fault) ==
    IF fault THEN [links |-> ls, err |-> "EFAULT"]
    ELSE [links |-> [ls EXCEPT ![name].addrs = @ \cup {addr}], err |-> ""]

\* netlink.LinkSetUp
LinkSetUp(ls, name, fault) ==
    IF fault THEN [links |-> ls, err |-> "EFAULT"]
    ELSE [links |-> [ls EXCEPT ![name].up = TRUE], err |-> ""]

(* ------------------------------------------------------------------ *)
(* Pure parts of the program                                           *)
(* ------------------------------------------------------------------ *)

\* addGRE(name, local, remote, ip4, ip6): the four netlink calls in order, returning
\* at the first that fails (failAt is the call the kernel refuses for a reason of
\* its own, 0 for none; the configured addresses parse).
addGRE(ls, name, remote, ip4, ip6, failAt) ==
    LET a == LinkAdd(ls, name, remote, failAt = 1)
        b == AddrAdd(a.links, name, ip4, failAt = 2)
        c == AddrAdd(b.links, name, ip6, failAt = 3)
        d == LinkSetUp(c.links, name, failAt = 4)
    IN IF a.err # "" THEN a
       ELSE IF b.err # "" THEN b
       ELSE IF c.err # "" THEN c
       ELSE d

\* A tunnel loop that stops at the first addGRE that returns an error.
meshRest_AbortOnError(rest, name, e) ==
    IF e # "" THEN {} ELSE rest \ {name}

\* main's tunnel loop after the iteration on `name`, whose addGRE returned e (""
\* is nil, as it is for the local node, which the loop skips): the error is
\* logged and the loop goes on with the nodes left.
meshRest(rest, name, e) == rest \ {name}

\* teardownGRE's range loop after the iteration on `iface`, whose LinkDel returned
\* e ("" also when the interface is not of the fabric): an error is returned at once.
teardownRest(rest, iface, e) ==
    IF e # "" THEN {} ELSE rest \ {iface}

\* setPFNet(state)
setPFNet(link, state, fault) ==
    IF state THEN NetSh(link, fault) ELSE LinkDel(link, fault)

\* An addRoute that takes the next hop of the other address family.
addRouteNexthop_WrongFamily(prefix, nexthop4, nexthop6) ==
    IF IsV4(prefix) THEN nexthop6 ELSE nexthop4

\* addRoute: the next hop of the prefix's address family.
addRouteNexthop(prefix, nexthop4, nexthop6) ==
    IF IsV4(prefix) THEN nexthop4 ELSE nexthop6

\* addRoute(prefix, nexthop4, nexthop6)
addRoute(rt, prefix, nexthop4, nexthop6, fault) ==
    RouteAdd(rt, prefix, addRouteNexthop(prefix, nexthop4, nexthop6), fault)

\* setReroute's control flow is a record: the statement the call is at next (pc),
\* the prefix its range loop is at (idx) and, once it has returned, what it
\* returned (err: "nil" or "err").
Goto(label, i) == [pc |-> label, idx |-> i, err |-> ""]
Return(e) == [pc |-> "done", idx |-> 0, err |-> e]

\* A setReroute that installs the routes first and disables local handling last.
rerouteFlow_RoutesFirst(at, i, e) ==
    CASE at = "enter" -> Goto("add", 1)
      [] at = "add" ->
            IF e THEN Return("err")
            ELSE IF i < Len(Prefixes) THEN Goto("add", i + 1)
            ELSE Goto("pfnet_off", 0)
      [] at = "pfnet_off" -> IF e THEN Return("err") ELSE Return("nil")

\* A setReroute that goes on after a failed addRoute and returns nil.
rerouteFlow_IgnoreAddError(at, i, e) ==
    CASE at = "enter" -> Goto("pfnet_off", 0)
      [] at = "pfnet_off" -> IF e THEN Return("err") ELSE Goto("add", 1)
      [] at = "add" -> IF i < Len(Prefixes) THEN Goto("add", i + 1) ELSE Return("nil")

\* setReroute, the branch `if reroute`: where the call goes after the statement
\* `at` (i is the prefix just handled, e whether the statement returned an error).
rerouteFlow(at, i, e) ==
    CASE at = "enter" -> Goto("pfnet_off", 0)
      [] at = "pfnet_off" ->
            IF e THEN Return("err")
            ELSE IF Len(Prefixes) = 0 THEN Return("nil")
            ELSE Goto("add", 1)
      [] at = "add" ->
            IF e THEN Return("err")
            ELSE IF i < Len(Prefixes) THEN Goto("add", i + 1)
            ELSE Return("nil")

\* A setReroute that re-enables local handling first and removes the routes last.
norerouteFlow_EnableFirst(at, i, e) ==
    CASE at = "enter" -> Goto("pfnet_on", 0)
      [] at = "pfnet_on" -> IF e THEN Return("err") ELSE Goto("del", 1)
      [] at = "del" ->
            IF e THEN Return("err")
            ELSE IF i < Len(Prefixes) THEN Goto("del", i + 1)
            ELSE Goto("metric0", 0)
      [] at = "metric0" -> Return("nil")

\* A setReroute that returns nil without metricIsRerouting.Set(0).
norerouteFlow_NoMetricReset(at, i, e) ==
    CASE at = "enter" -> Goto("del", 1)
      [] at = "del" ->
            IF e THEN Return("err")
            ELSE IF i < Len(Prefixes) THEN Goto("del", i + 1)
            ELSE Goto("pfnet_on", 0)
      [] at = "pfnet_on" -> IF e THEN Return("err") ELSE Return("nil")

\* setReroute, the branch `else`.
norerouteFlow(at, i, e) ==
    CASE at = "enter" ->
            IF Len(Prefixes) = 0 THEN Goto("pfnet_on", 0) ELSE Goto("del", 1)
      [] at = "del" ->
            IF e THEN Return("err")
            ELSE IF i < Len(Prefixes) THEN Goto("del", i + 1)
            ELSE Goto("pfnet_on", 0)
      [] at = "pfnet_on" ->
            IF e THEN Return("err") ELSE Goto("metric0", 0)
      [] at = "metric0" -> Return("nil")

\* What the handler writes once setReroute has returned e.
HandlerResponse(kind, target, e) ==
    IF kind = "reroute"
    THEN IF e # "nil" THEN << "Error rerouting to", target >>
         ELSE << "Rerouting to", target >>
    ELSE IF e # "nil" THEN << "Error disabling reroute" >>
         ELSE << "Reroute disabled" >>

\* One iteration of closestNode's range loop, on the entry (name, nd). With one
\* loop variable per loop, closest = &node aliases the variable the next iteration
\* overwrites: *closest is then the entry being compared.
closestNodeStep(s, name, nd, shared) ==
    LET cur == IF shared /\ s.closest # NilPtr THEN nd ELSE s.closest
    IN IF s.closest = NilPtr \/ nd.Latency < cur.Latency
       THEN [closest |-> nd, closestName |-> name]
       ELSE [closest |-> cur, closestName |-> s.closestName]

\* What the history `coexisted` collects: the names with the lowest latency in
\* table t ("" when t is empty).
ClosestIn(t) ==
    IF DOMAIN t = {} THEN {""}
    ELSE {n \in DOMAIN t : \A m \in DOMAIN t : t[n].Latency <= t[m].Latency}

\* What a probe can come to: a transport error, or statistics.
ProbeOutcomes ==
    {[err |-> TRUE, rtt |-> 0, loss |-> 0]}
    \cup [err : {FALSE}, rtt : 0..MaxLatency, loss : 0..MaxLoss]

\* icmpLatency: (AvgRtt, PacketLoss, nil), or (0, 0, err).
icmpLatency(o) ==
    IF o.err THEN [latency |-> 0, loss |-> 0, err |-> TRUE]
    ELSE [latency |-> o.rtt, loss |-> o.loss, err |-> FALSE]

\* A test that takes the latency threshold as exclusive.
isCandidate_StrictLatency(latency, loss) ==
    latency < LatencyThreshold /\ loss < LossThreshold

\* The probe loop's test of a sample against the thresholds.
isCandidate(latency, loss) == latency <= LatencyThreshold /\ loss < LossThreshold

\* The probe loop's update of candidateNodes for one node.
updateCandidates(t, name, nd, latency, loss) ==
    IF isCandidate(latency, loss)
    THEN [n \in DOMAIN t \cup {name} |->
            IF n = name THEN [nd EXCEPT !.Latency = latency] ELSE t[n]]
    ELSE [n \in DOMAIN t \ {name} |-> t[n]]


(* ------------------------------------------------------------------ *)
(* Initial states                                                      *)
(* ------------------------------------------------------------------ *)

\* The candidate tables the probe loop can have built.
Tables ==
    UNION {[S -> 0..LatencyThreshold] : S \in SUBSET PeerNames}

TableOf(f) == [n \in DOMAIN f |-> [ConfigNodes[n] EXCEPT !.Latency = f[n]]]

\* The interfaces the model has: the uplink and the tunnels of the peers.
Interfaces == {Uplink} \cup {TunnelName(n) : n \in PeerNames}

\* A tunnel that addGRE built.
BuiltTunnel(n) ==
    [remote |-> ConfigNodes[n].IP,
     addrs |-> {internalCIDR(Prefix4, LocalID, 24), internalCIDR(Prefix6, LocalID, 112)},
     up |-> TRUE]

\* The interfaces when the tunnels of the peers in S exist.
LinksWith(S) ==
    [i \in {j \in Interfaces : j = Uplink \/ j[2] \in S} |->
        IF i = Uplink THEN [remote |-> "", addrs |-> {}, up |-> TRUE]
        ELSE BuiltTunnel(i[2])]

\* main has built the mesh and started the API server and the ticker.
Started ==
    /\ phase = "serving"
    /\ down = FALSE
    /\ links = LinksWith(PeerNames)
    /\ ifaces = {}
    /\ meshPending = {}
    /\ listed = {}
    /\ startLog = {}

\* The request goroutines and the probe loop before anything has run.
InitGoroutines ==
    /\ loopVarShared \in BOOLEAN
    /\ crashed = FALSE
    /\ pending = {}
    /\ req = [h \in Handlers |-> NoRequest]
    /\ to = [h \in Handlers |-> ""]
    /\ node = [h \in Handlers |-> NilPtr]
    /\ scan = [h \in Handlers |-> NoScan]
    /\ visited = [h \in Handlers |-> {}]
    /\ added = [h \in Handlers |-> {}]
    /\ idx = [h \in Handlers |-> 0]
    /\ err = [h \in Handlers |-> ""]
    /\ resp = [h \in Handlers |-> << >>]
    /\ log = [h \in Handlers |-> << >>]
    /\ before = [h \in Handlers |-> << >>]
    /\ coexisted = [h \in Handlers |-> {}]
    /\ last = NoCall

\* No request is being served and no tick is running.
InitLocals ==
    /\ Started
    /\ InitGoroutines

\* The node handles its prefixes locally: no reroute call has been made.
InitCommon ==
    /\ metricIsRerouting = 0
    /\ localLink = TRUE
    /\ routes = NoRoutes
    /\ InitLocals

\* The slots of the request goroutines: `serving` of them serve, the others never do.
Slots(serving) == [h \in Handlers |-> IF h <= serving THEN "idle" ELSE "off"]

\* The process after main has built the mesh: the ticker has not fired yet, the
\* API server takes one request at a time.
Init ==
    /\ InitCommon
    /\ candidateNodes = << >>
    /\ metricCandidateNodes = 0
    /\ metricNodeLatency = << >>
    /\ pc = Slots(1)
    /\ history = FALSE

\* The probe loop has run and is between two ticks: it has built table f, and the
\* gauges show it.
InitQuiet(f) ==
    /\ InitCommon
    /\ candidateNodes = TableOf(f)
    /\ metricCandidateNodes = Cardinality(DOMAIN f)
    /\ metricNodeLatency = f

\* Requests one at a time, with the call histories, on any table.
InitSeq ==
    /\ \E f \in Tables : InitQuiet(f)
    /\ pc = Slots(1)
    /\ history = TRUE

\* Requests served concurrently, with no candidate or with every peer one (C the
\* closer), in a build with per-iteration loop variables (which node closestNode
\* comes to does not bear on how the calls interleave).
InitConc ==
    /\ \E f \in {[n \in {} |-> 0], [n \in PeerNames |-> IF n = "C" THEN 0 ELSE 1]} :
          InitQuiet(f)
    /\ ~loopVarShared
    /\ pc = Slots(NumHandlers)
    /\ history = FALSE

\* main begins: the flags are parsed and the configuration is loaded; tunnels of an
\* earlier run may exist.
InitStart ==
    /\ InitGoroutines
    /\ metricIsRerouting = 0
    /\ localLink = TRUE
    /\ routes = NoRoutes
    /\ candidateNodes = << >>
    /\ metricCandidateNodes = 0
    /\ metricNodeLatency = << >>
    /\ pc = Slots(0)
    /\ history = FALSE
    /\ phase = "start"
    /\ down \in BOOLEAN
    /\ links \in {LinksWith(S) : S \in SUBSET PeerNames}
    /\ ifaces = {}
    /\ meshPending = {}
    /\ listed = {}
    /\ startLog = {}

\* The probe loop between two ticks, on any table, when the calls made so far have
\* left the node handling its prefixes locally or rerouted to a peer; no request is
\* being served.
InitTick ==
    /\ InitLocals
    /\ \E k \in {Direct} \cup {ReroutedTo(ConfigNodes[n].ID) : n \in PeerNames} :
          /\ localLink = k.link
          /\ routes = k.routes
          /\ metricIsRerouting = k.metric
    /\ \E f \in Tables :
          /\ candidateNodes = TableOf(f)
          /\ metricCandidateNodes = Cardinality(DOMAIN f)
          /\ metricNodeLatency = f
    /\ pc = Slots(0)
    /\ history = FALSE

(* ------------------------------------------------------------------ *)
(* main before it serves: teardownGRE and the tunnel loop              *)
(* ------------------------------------------------------------------ *)

\* What the start of main leaves alone.
runVars == << loopVarShared, candidateNodes, metricIsRerouting, metricCandidateNodes,
              metricNodeLatency, localLink, routes, crashed, pending, pc, req, to, node,
              scan, visited, added, idx, err, resp, log, before, coexisted, last, history >>

StartEntry(op, name, e) == [op |-> op, name |-> name, err |-> e]

\* teardownGRE is entered: links, err := netlink.LinkList(); an error is returned.
TeardownList(fault) ==
    /\ phase = "start"
    /\ LET r == LinkList(links, fault)
       IN /\ listed' = r.list
          /\ ifaces' = r.list
          /\ startLog' = startLog \cup {StartEntry("LinkList", << >>, r.err)}
    /\ phase' = "teardown"
    /\ UNCHANGED << runVars, down, links, meshPending >>

\* One iteration of teardownGRE's range loop, on the listed interface iface.
TeardownStep(iface, fault) ==
    /\ phase = "teardown"
    /\ iface \in ifaces
    /\ IF HasFabricPrefix(iface)
       THEN LET r == IfaceDel(links, iface, fault)
            IN /\ links' = r.links
               /\ startLog' = startLog \cup {StartEntry("LinkDel", iface, r.err)}
               /\ ifaces' = teardownRest(ifaces, iface, r.err)
       ELSE /\ ~fault
            /\ ifaces' = teardownRest(ifaces, iface, "")
            /\ UNCHANGED << links, startLog >>
    /\ UNCHANGED << runVars, phase, down, meshPending, listed >>

\* teardownGRE has returned: main logs its error if any, exits under -d, and else
\* finds the local node and begins `for name, node := range config.Nodes`.
TeardownReturn ==
    /\ phase = "teardown"
    /\ ifaces = {}
    /\ phase' = IF down THEN "exited" ELSE "mesh"
    /\ meshPending' = IF down THEN {} ELSE DOMAIN ConfigNodes
    /\ UNCHANGED << runVars, down, links, ifaces, listed, startLog >>

\* One iteration of the tunnel loop, on node n: the local node is skipped; for a
\* peer addGRE is called and its error, if any, logged.
MeshStep(n, failAt) ==
    /\ phase = "mesh"
    /\ n \in meshPending
    /\ IF ConfigNodes[n].ID = LocalID
       THEN /\ failAt = 0
            /\ meshPending' = meshRest(meshPending, n, "")
            /\ UNCHANGED << links, startLog >>
       ELSE LET r == addGRE(links, TunnelName(n), ConfigNodes[n].IP,
                            internalCIDR(Prefix4, LocalID, 24),
                            internalCIDR(Prefix6, LocalID, 112), failAt)
            IN /\ links' = r.links
               /\ startLog' = startLog \cup {StartEntry("addGRE", TunnelName(n), r.err)}
               /\ meshPending' = meshRest(meshPending, n, r.err)
    /\ UNCHANGED << runVars, phase, down, ifaces, listed >>

\* The tunnel loop is over: the API server and the ticker are started.
StartServing ==
    /\ phase = "mesh"
    /\ meshPending = {}
    /\ phase' = "serving"
    /\ UNCHANGED << runVars, down, links, ifaces, meshPending, listed, startLog >>

(* ------------------------------------------------------------------ *)
(* The /reroute handler                                                *)
(* ------------------------------------------------------------------ *)

\* GET /reroute?to=t: to := r.URL.Query().Get("to"); with a name, n := config.Nodes[to];
\* without one, closestNode() begins to range over candidateNodes (a range over an
\* empty map is over at once: closestNode returns nil and "").
ReqReroute(h, t) ==
    /\ ~crashed
    /\ pc[h] = "idle"
    /\ req' = [req EXCEPT ![h] = [kind |-> "reroute", to |-> t]]
    /\ before' = [before EXCEPT ![h] = IF history THEN Kernel ELSE @]
    /\ IF t = ""
       THEN /\ pc' = [pc EXCEPT ![h] = IF DOMAIN candidateNodes = {} THEN "chosen" ELSE "scan"]
            /\ coexisted' = [coexisted EXCEPT ![h] = ClosestIn(candidateNodes)]
            /\ to' = [to EXCEPT ![h] = ""]
            /\ node' = [node EXCEPT ![h] = NilPtr]
       ELSE /\ pc' = [pc EXCEPT ![h] = "chosen"]
            /\ to' = [to EXCEPT ![h] = t]
            /\ node' = [node EXCEPT ![h] = LookupNode(t)]
            /\ UNCHANGED coexisted
    /\ UNCHANGED << loopVarShared, startVars, probeVars, metricIsRerouting, kernelVars, crashed,
                    scan, visited, added, idx, err, resp, log, histVars >>

\* closestNode: one iteration of `for name, node := range candidateNodes`, on a key
\* of the map as it is now that the loop has not produced yet.
ScanStep(h, n) ==
    /\ ~crashed
    /\ pc[h] = "scan"
    /\ n \in DOMAIN candidateNodes \ visited[h]
    /\ scan' = [scan EXCEPT ![h] = closestNodeStep(@, n, candidateNodes[n], loopVarShared)]
    /\ visited' = [visited EXCEPT ![h] = @ \cup {n}]
    /\ UNCHANGED << loopVarShared, startVars, probeVars, metricIsRerouting, kernelVars, crashed,
                    pc, req, to, node, added, idx, err, resp, log, before, coexisted, histVars >>

\* closestNode returns: node, to = closestNode(). The loop ends once every key is
\* produced; a key inserted while it ran may have been skipped.
ScanEnd(h) ==
    /\ ~crashed
    /\ pc[h] = "scan"
    /\ (DOMAIN candidateNodes \ visited[h]) \subseteq added[h]
    /\ node' = [node EXCEPT ![h] = scan[h].closest]
    /\ to' = [to EXCEPT ![h] = scan[h].closestName]
    /\ pc' = [pc EXCEPT ![h] = "chosen"]
    /\ scan' = [scan EXCEPT ![h] = NoScan]
    /\ visited' = [visited EXCEPT ![h] = {}]
    /\ added' = [added EXCEPT ![h] = {}]
    /\ UNCHANGED << loopVarShared, startVars, probeVars, metricIsRerouting, kernelVars, crashed,
                    req, idx, err, resp, log, before, coexisted, histVars >>

\* node.ID with node == nil: the handler goroutine panics before setReroute is
\* called; net/http recovers, logs the panic and closes the connection unanswered.
HandlerPanic(h) ==
    /\ ~crashed
    /\ pc[h] = "chosen"
    /\ node[h] = NilPtr
    /\ pc' = [pc EXCEPT ![h] = "done"]
    /\ err' = [err EXCEPT ![h] = "panic"]
    /\ resp' = [resp EXCEPT ![h] = << >>]
    /\ coexisted' = [coexisted EXCEPT ![h] = {}]
    /\ UNCHANGED << loopVarShared, startVars, probeVars, metricIsRerouting, kernelVars, crashed,
                    req, to, node, scan, visited, added, idx, log, before, histVars >>

\* setReroute(true, ...) is entered: metricIsRerouting.Set(1).
BeginReroute(h) ==
    /\ ~crashed
    /\ pc[h] = "chosen"
    /\ node[h] # NilPtr
    /\ metricIsRerouting' = 1
    /\ LET f == rerouteFlow("enter", 0, FALSE)
       IN /\ pc' = [pc EXCEPT ![h] = f.pc]
          /\ idx' = [idx EXCEPT ![h] = f.idx]
    /\ coexisted' = [coexisted EXCEPT ![h] = {}]
    /\ UNCHANGED << loopVarShared, startVars, probeVars, kernelVars, crashed, req, to, node,
                    scan, visited, added, err, resp, log, before, histVars >>

\* The call moves on after a statement: the next statement, or the return and the
\* handler's response.
Advance(h, f) ==
    /\ pc' = [pc EXCEPT ![h] = f.pc]
    /\ idx' = [idx EXCEPT ![h] = f.idx]
    /\ err' = [err EXCEPT ![h] = f.err]
    /\ resp' = [resp EXCEPT ![h] =
                  IF f.pc = "done" THEN HandlerResponse(req[h].kind, to[h], f.err) ELSE @]

\* setPFNet(false)
DisableLocal(h, fault) ==
    /\ ~crashed
    /\ pc[h] = "pfnet_off"
    /\ LET r == setPFNet(localLink, FALSE, fault)
       IN /\ localLink' = r.link
          /\ log' = [log EXCEPT ![h] = Append(@, [op |-> "LinkDel", dst |-> "", err |-> r.err])]
          /\ Advance(h, rerouteFlow("pfnet_off", 0, r.err # ""))
    /\ UNCHANGED << loopVarShared, startVars, probeVars, metricIsRerouting, routes, crashed, req, to,
                    node, scanVars, before, histVars >>

\* addRoute(prefix, nexthop4, nexthop6) for the prefix the loop is at.
AddRouteStep(h, fault) ==
    /\ ~crashed
    /\ pc[h] = "add"
    /\ LET prefix == Prefixes[idx[h]]
           r == addRoute(routes, prefix, internalIP(Prefix4, node[h].ID),
                         internalIP(Prefix6, node[h].ID), fault)
       IN /\ routes' = r.routes
          /\ log' = [log EXCEPT ![h] = Append(@, [op |-> "RouteAdd", dst |-> prefix, err |-> r.err])]
          /\ Advance(h, rerouteFlow("add", idx[h], r.err # ""))
    /\ UNCHANGED << loopVarShared, startVars, probeVars, metricIsRerouting, localLink, crashed, req, to,
                    node, scanVars, before, histVars >>

(* ------------------------------------------------------------------ *)
(* The /noreroute handler                                              *)
(* ------------------------------------------------------------------ *)

\* GET /noreroute: setReroute(false, config.Prefixes, "", "") is entered.
ReqNoReroute(h) ==
    /\ ~crashed
    /\ pc[h] = "idle"
    /\ req' = [req EXCEPT ![h] = [kind |-> "noreroute", to |-> ""]]
    /\ before' = [before EXCEPT ![h] = IF history THEN Kernel ELSE @]
    /\ LET f == norerouteFlow("enter", 0, FALSE)
       IN /\ pc' = [pc EXCEPT ![h] = f.pc]
          /\ idx' = [idx EXCEPT ![h] = f.idx]
    /\ UNCHANGED << loopVarShared, startVars, probeVars, metricIsRerouting, kernelVars, crashed, to,
                    node, scanVars, err, resp, log, histVars >>

\* netlink.RouteDel of the route to the prefix the loop is at.
DelRouteStep(h, fault) ==
    /\ ~crashed
    /\ pc[h] = "del"
    /\ LET prefix == Prefixes[idx[h]]
           r == RouteDel(routes, prefix, fault)
       IN /\ routes' = r.routes
          /\ log' = [log EXCEPT ![h] = Append(@, [op |-> "RouteDel", dst |-> prefix, err |-> r.err])]
          /\ Advance(h, norerouteFlow("del", idx[h], r.err # ""))
    /\ UNCHANGED << loopVarShared, startVars, probeVars, metricIsRerouting, localLink, crashed, req, to,
                    node, scanVars, before, histVars >>

\* setPFNet(true)
EnableLocal(h, fault) ==
    /\ ~crashed
    /\ pc[h] = "pfnet_on"
    /\ LET r == setPFNet(localLink, TRUE, fault)
       IN /\ localLink' = r.link
          /\ log' = [log EXCEPT ![h] = Append(@, [op |-> "net.sh", dst |-> "", err |-> r.err])]
          /\ Advance(h, norerouteFlow("pfnet_on", 0, r.err # ""))
    /\ UNCHANGED << loopVarShared, startVars, probeVars, metricIsRerouting, routes, crashed, req, to,
                    node, scanVars, before, histVars >>

\* metricIsRerouting.Set(0), and setReroute returns nil.
ClearMetric(h) ==
    /\ ~crashed
    /\ pc[h] = "metric0"
    /\ metricIsRerouting' = 0
    /\ Advance(h, norerouteFlow("metric0", 0, FALSE))
    /\ UNCHANGED << loopVarShared, startVars, probeVars, kernelVars, crashed, req, to, node,
                    scanVars, log, before, histVars >>

\* The handler has returned: the goroutine is free for the next request.
Close(h) ==
    /\ ~crashed
    /\ pc[h] = "done"
    /\ pc' = [pc EXCEPT ![h] = "idle"]
    /\ last' = IF history
               THEN [kind |-> req[h].kind,
                     id |-> IF node[h] = NilPtr THEN 0 ELSE node[h].ID,
                     err |-> err[h], before |-> before[h]]
               ELSE last
    /\ req' = [req EXCEPT ![h] = NoRequest]
    /\ to' = [to EXCEPT ![h] = ""]
    /\ node' = [node EXCEPT ![h] = NilPtr]
    /\ idx' = [idx EXCEPT ![h] = 0]
    /\ err' = [err EXCEPT ![h] = ""]
    /\ resp' = [resp EXCEPT ![h] = << >>]
    /\ log' = [log EXCEPT ![h] = << >>]
    /\ before' = [before EXCEPT ![h] = << >>]
    /\ UNCHANGED << loopVarShared, startVars, probeVars, metricIsRerouting, kernelVars, crashed,
                    scanVars, history >>

(* ------------------------------------------------------------------ *)
(* The probe loop                                                      *)
(* ------------------------------------------------------------------ *)

\* The ticker fires: `for name, node := range config.Nodes` begins; the iteration
\* on the local node is the `continue`, which changes nothing.
TickStart ==
    /\ ~crashed
    /\ pending = {}
    /\ pending' = PeerNames
    /\ UNCHANGED << loopVarShared, startVars, candidateNodes, metricCandidateNodes, metricNodeLatency,
                    metricIsRerouting, kernelVars, crashed, pc, req, to, node, scanVars,
                    idx, err, resp, log, before, histVars >>

\* A probe loop that withdraws the reroute when the peer it has probed is no
\* longer a candidate.
Probe_WithdrawStale(n, o) ==
    /\ ~crashed
    /\ n \in pending
    /\ LET r == icmpLatency(o)
           t == updateCandidates(candidateNodes, n, ConfigNodes[n], r.latency, r.loss)
       IN /\ candidateNodes' = t
          /\ metricCandidateNodes' = Cardinality(DOMAIN t)
          /\ metricNodeLatency' =
                [d \in DOMAIN metricNodeLatency \cup {n} |->
                    IF d = n THEN r.latency ELSE metricNodeLatency[d]]
          /\ coexisted' = [h \in Handlers |->
                IF pc[h] = "scan" THEN coexisted[h] \cup ClosestIn(t) ELSE coexisted[h]]
          /\ added' = [h \in Handlers |->
                IF pc[h] = "scan" /\ n \in DOMAIN t /\ n \notin DOMAIN candidateNodes
                THEN added[h] \cup {n} ELSE added[h]]
    /\ pending' = pending \ {n}
    /\ IF isCandidate(icmpLatency(o).latency, icmpLatency(o).loss)
       THEN UNCHANGED << metricIsRerouting, kernelVars >>
       ELSE /\ metricIsRerouting' = 0
            /\ localLink' = TRUE
            /\ routes' = NoRoutes
    /\ UNCHANGED << loopVarShared, startVars, crashed, pc, req, to, node,
                    scan, visited, idx, err, resp, log, before, histVars >>

\* One iteration of the probe loop on peer n, whose probe comes to o: the ping, the
\* candidate update and the two gauges.
Probe(n, o) ==
    /\ ~crashed
    /\ n \in pending
    /\ LET r == icmpLatency(o)
           t == updateCandidates(candidateNodes, n, ConfigNodes[n], r.latency, r.loss)
       IN /\ candidateNodes' = t
          /\ metricCandidateNodes' = Cardinality(DOMAIN t)
          /\ metricNodeLatency' =
                [d \in DOMAIN metricNodeLatency \cup {n} |->
                    IF d = n THEN r.latency ELSE metricNodeLatency[d]]
          /\ coexisted' = [h \in Handlers |->
                IF pc[h] = "scan" THEN coexisted[h] \cup ClosestIn(t) ELSE coexisted[h]]
          /\ added' = [h \in Handlers |->
                IF pc[h] = "scan" /\ n \in DOMAIN t /\ n \notin DOMAIN candidateNodes
                THEN added[h] \cup {n} ELSE added[h]]
    /\ pending' = pending \ {n}
    /\ UNCHANGED << loopVarShared, startVars, metricIsRerouting, kernelVars, crashed, pc, req, to, node,
                    scan, visited, idx, err, resp, log, before, histVars >>

\* The probe loop writes candidateNodes while a handler ranges over it: the runtime
\* may detect it (fatal error: concurrent map iteration and map write) and end the
\* process. What the process held is gone; what it did to the kernel stays.
MapFault ==
    /\ ~crashed
    /\ \E h \in Handlers : pc[h] = "scan"
    /\ pending # {}
    /\ crashed' = TRUE
    /\ candidateNodes' = << >>
    /\ metricCandidateNodes' = 0
    /\ metricNodeLatency' = << >>
    /\ metricIsRerouting' = 0
    /\ pending' = {}
    /\ pc' = [h \in Handlers |-> "off"]
    /\ req' = [h \in Handlers |-> NoRequest]
    /\ to' = [h \in Handlers |-> ""]
    /\ node' = [h \in Handlers |-> NilPtr]
    /\ scan' = [h \in Handlers |-> NoScan]
    /\ visited' = [h \in Handlers |-> {}]
    /\ added' = [h \in Handlers |-> {}]
    /\ idx' = [h \in Handlers |-> 0]
    /\ err' = [h \in Handlers |-> ""]
    /\ resp' = [h \in Handlers |-> << >>]
    /\ log' = [h \in Handlers |-> << >>]
    /\ before' = [h \in Handlers |-> << >>]
    /\ coexisted' = [h \in Handlers |-> {}]
    /\ last' = NoCall
    /\ UNCHANGED << loopVarShared, startVars, kernelVars, history >>

(* ------------------------------------------------------------------ *)
(* Specifications                                                      *)
(* ------------------------------------------------------------------ *)

HandlerNext ==
    \E h \in Handlers :
        \/ \E t \in RequestNames : ReqReroute(h, t)
        \/ \E n \in PeerNames : ScanStep(h, n)
        \/ ScanEnd(h)
        \/ HandlerPanic(h)
        \/ BeginReroute(h)
        \/ \E fault \in BOOLEAN : DisableLocal(h, fault)
        \/ \E fault \in BOOLEAN : AddRouteStep(h, fault)
        \/ ReqNoReroute(h)
        \/ \E fault \in BOOLEAN : DelRouteStep(h, fault)
        \/ \E fault \in BOOLEAN : EnableLocal(h, fault)
        \/ ClearMetric(h)
        \/ Close(h)

\* The probe loop when no request ranges over the table.
TickNext ==
    \/ TickStart
    \/ \E n \in PeerNames : \E o \in ProbeOutcomes : Probe(n, o)

ProbeNext ==
    \/ TickNext
    \/ MapFault

Next == HandlerNext \/ ProbeNext

\* One request at a time and the probe loop.
Spec == Init /\ [][Next]_vars

\* One request at a time between two ticks, with the call histories.
SeqSpec == InitSeq /\ [][HandlerNext]_vars

\* Concurrent requests between two ticks.
ConcSpec == InitConc /\ [][HandlerNext]_vars

\* The probe loop alone, in any reroute state the calls can have left.
TickSpec == InitTick /\ [][TickNext]_vars

NamedNext ==
    \/ \E h \in Handlers : \E t \in OtherNames : ReqReroute(h, t)
    \/ HandlerNext

\* Requests one at a time between two ticks, with any value of "to".
NamedSpec == InitSeq /\ [][NamedNext]_vars

StartNext ==
    \/ \E fault \in BOOLEAN : TeardownList(fault)
    \/ \E iface \in Interfaces : \E fault \in BOOLEAN : TeardownStep(iface, fault)
    \/ TeardownReturn
    \/ \E n \in DOMAIN ConfigNodes : \E failAt \in 0..4 : MeshStep(n, failAt)
    \/ StartServing

\* main from its first statement to the start of the API server.
StartSpec == InitStart /\ [][StartNext]_vars


(* ------------------------------------------------------------------ *)
(* Properties                                                          *)
(* ------------------------------------------------------------------ *)

Op(name, dst) == [op |-> name, dst |-> dst, err |-> ""]

\* The last entry of a call's log.
LastOp(h) == log[h][Len(log[h])]

\* Goroutine h issues a kernel operation in this step.
Issues(h) == Len(log'[h]) > Len(log[h])

\* Call h has issued a kernel operation and has another one to issue.
MidCall(h) ==
    /\ log[h] # << >>
    /\ pc[h] \in {"pfnet_off", "add", "del", "pfnet_on"}

\* C1: two setReroute calls serialize: no call issues a kernel operation (the
\* disable or enable of local handling, a route add or delete) while another call
\* has issued one and has more to issue.
C1_CallsSerialize ==
    [][\A h \in Handlers : \A g \in Handlers \ {h} : Issues(h) => ~MidCall(g)]_vars

\* C2: in a call that reroutes, no route add is issued before the call's own
\* disable of local handling has succeeded.
C2_DisableBeforeInstall ==
    \A h \in Handlers : \A i \in DOMAIN log[h] :
        log[h][i].op = "RouteAdd" =>
            \E j \in 1..(i - 1) : log[h][j] = Op("LinkDel", "")

\* A call has installed a route.
C2_Witness ==
    \E h \in Handlers : \E i \in DOMAIN log[h] :
        log[h][i].op = "RouteAdd" /\ log[h][i].err = ""

\* C3: a call that leaves reroute re-enables local handling only once it has
\* removed the route of every configured prefix, at a moment when no configured
\* prefix has a route; after a failed removal it does not re-enable it.
C3_RemoveBeforeEnable ==
    [][\A h \in Handlers :
         (Issues(h) /\ pc[h] = "pfnet_on") =>
            /\ routes = NoRoutes
            /\ \A p \in PrefixSet : \E i \in DOMAIN log[h] : log[h][i] = Op("RouteDel", p)
            /\ \A i \in DOMAIN log[h] : log[h][i].err = ""]_vars

\* A call has removed the routes and re-enabled local handling.
C3_Witness ==
    \E h \in Handlers :
        /\ req[h].kind = "noreroute"
        /\ log[h] # << >>
        /\ LastOp(h) = Op("net.sh", "")


\* The outcome of a probe that could not measure.
ProbeError == [err |-> TRUE, rtt |-> 0, loss |-> 0]

\* C4: the name a reroute() call without a target comes to is a closest member of
\* a candidate table that existed, whole, at some moment of its scan ("" of an
\* empty one). Stated for the builds in which closestNode's loop variable is per
\* iteration, where the scan of a table that does not change is a minimum search.
C4_NoTornRead ==
    \A h \in Handlers :
        (~loopVarShared /\ pc[h] = "chosen" /\ req[h] = [kind |-> "reroute", to |-> ""])
            => to[h] \in coexisted[h]

\* C5: a probe of a peer that has a stored sample, when it ends in an error,
\* leaves the candidate table and the peer's latency sample as they were.
C5_ErrorKeepsSample ==
    [][\A n \in PeerNames :
         (n \in DOMAIN metricNodeLatency /\ Probe(n, ProbeError)) =>
            /\ candidateNodes' = candidateNodes
            /\ metricNodeLatency' = metricNodeLatency]_vars

\* C6: a reroute() call without a target that finds no candidate answers "no
\* candidate available", having issued no kernel operation; it does not fail in
\* another way.
C6_NoCandidateAnswer ==
    \A h \in Handlers :
        (pc[h] = "done" /\ req[h] = [kind |-> "reroute", to |-> ""] /\ node[h] = NilPtr)
            => /\ resp[h] = << "no candidate available" >>
               /\ err[h] # "panic"
               /\ log[h] = << >>

\* C7: when setReroute(P) has succeeded and is called again at once, the state at
\* the second call's return is the state at the first call's return: local
\* handling disabled, one route per configured prefix, to P's internal address of
\* the prefix's family, the flag at 1.
C7_RerouteIdempotent ==
    \A h \in Handlers :
        (/\ pc[h] = "done"
         /\ req[h].kind = "reroute"
         /\ node[h] # NilPtr
         /\ last.kind = "reroute" /\ last.err = "nil" /\ last.id = node[h].ID)
            => /\ before[h] = ReroutedTo(node[h].ID)
               /\ Kernel = before[h]

\* A second setReroute(P) has returned after a first that succeeded.
C7_Witness ==
    \E h \in Handlers :
        /\ pc[h] = "done"
        /\ req[h].kind = "reroute"
        /\ node[h] # NilPtr
        /\ last.kind = "reroute" /\ last.err = "nil" /\ last.id = node[h].ID
        /\ log[h] # << >>

\* The call issued no kernel operation that failed for a reason of the kernel's own.
NoFault(h) == \A i \in DOMAIN log[h] : log[h][i].err # "EFAULT"

\* C8: a call that asks for the state the node is in (no-reroute in Direct, reroute
\* to P in ReroutedTo(P)) returns no error, the kernel refusing nothing of its own.
C8_SameStateNoError ==
    \A h \in Handlers :
        (/\ pc[h] = "done"
         /\ NoFault(h)
         /\ \/ req[h].kind = "noreroute" /\ before[h] = Direct
            \/ req[h].kind = "reroute" /\ node[h] # NilPtr
                                       /\ before[h] = ReroutedTo(node[h].ID))
            => err[h] = "nil"

\* C9: from Direct, setReroute(P) and then setReroute(none), both successful, end
\* in Direct: local handling enabled, no route, the flag at 0.
C9_RoundTrip ==
    \A h \in Handlers :
        (/\ pc[h] = "done"
         /\ req[h].kind = "noreroute" /\ err[h] = "nil"
         /\ last.kind = "reroute" /\ last.err = "nil" /\ last.before = Direct)
            => Kernel = Direct

\* The round trip has been made.
C9_Witness ==
    \E h \in Handlers :
        /\ pc[h] = "done"
        /\ req[h].kind = "noreroute" /\ err[h] = "nil"
        /\ last.kind = "reroute" /\ last.err = "nil" /\ last.before = Direct

\* The logs of the two transitions when every operation succeeded.
FullReroute ==
    << Op("LinkDel", "") >> \o [i \in 1..Len(Prefixes) |-> Op("RouteAdd", Prefixes[i])]

FullNoReroute ==
    [i \in 1..Len(Prefixes) |-> Op("RouteDel", Prefixes[i])] \o << Op("net.sh", "") >>

\* C10: a call answers with the success message only when every operation of its
\* transition was issued and succeeded; when one failed, setReroute returned an
\* error and the answer is the error message.
C10_SuccessOnlyWhenComplete ==
    \A h \in Handlers :
        (pc[h] = "done" /\ err[h] # "panic") =>
            LET complete == log[h] = IF req[h].kind = "reroute" THEN FullReroute
                                     ELSE FullNoReroute
                success == IF req[h].kind = "reroute" THEN << "Rerouting to", to[h] >>
                           ELSE << "Reroute disabled" >>
                failure == IF req[h].kind = "reroute" THEN << "Error rerouting to", to[h] >>
                           ELSE << "Error disabling reroute" >>
            IN /\ complete => (err[h] = "nil" /\ resp[h] = success)
               /\ ~complete => (err[h] = "err" /\ resp[h] = failure)

\* A call has returned after an operation in the middle of its sequence failed.
C10_Witness ==
    \E h \in Handlers :
        /\ pc[h] = "done"
        /\ Len(log[h]) >= 2
        /\ LastOp(h).err # ""
        /\ resp[h] \in {<< "Error rerouting to", to[h] >>, << "Error disabling reroute" >>}

LowestIDClosest(t) ==
    IF DOMAIN t = {} THEN ""
    ELSE CHOOSE n \in DOMAIN t :
            \A m \in DOMAIN t :
                \/ t[n].Latency < t[m].Latency
                \/ t[n].Latency = t[m].Latency /\ t[n].ID <= t[m].ID

\* C12: on a table that does not change, closestNode comes to the candidate of
\* lowest latency, of lowest ID among equals, and to none on the empty table,
\* whatever order the range loop produced the entries in. Stated for the builds in
\* which the loop variable is per iteration.
C12_ClosestDeterministic ==
    \A h \in Handlers :
        (~loopVarShared /\ pc[h] = "chosen" /\ req[h] = [kind |-> "reroute", to |-> ""])
            => /\ to[h] = LowestIDClosest(candidateNodes)
               /\ (to[h] = "") <=> (node[h] = NilPtr)

\* C13: when a reroute call answers with the success message and a target name,
\* that name is a configured peer and the route of every configured prefix points
\* at that peer's internal address.
C13_TargetIsNamedPeer ==
    \A h \in Handlers :
        (pc[h] = "done" /\ req[h].kind = "reroute" /\ resp[h] = << "Rerouting to", to[h] >>)
            => /\ to[h] \in DOMAIN ConfigNodes
               /\ routes = ReroutedTo(LookupNode(to[h]).ID).routes

\* The start-up calls of one kind that main has made, by the name they were made on.
Attempted(op) == {e.name : e \in {x \in startLog : x.op = op}}

\* C14: the tunnel loop calls addGRE for every configured node but the local one,
\* whatever the calls before returned, and never for the local node.
C14_MeshBestEffort ==
    /\ TunnelName("A") \notin Attempted("addGRE")
    /\ phase = "serving" =>
          Attempted("addGRE") = {TunnelName(n) : n \in {"B", "C"}}

\* The mesh is built with one tunnel that addGRE failed on and one that is up.
C14_Witness ==
    /\ phase = "serving"
    /\ \E e \in startLog : e.op = "addGRE" /\ e.err # ""
    /\ \E e \in startLog : e.op = "addGRE" /\ e.err = "" /\ links[e.name].up

\* C15: once teardownGRE has returned, a deletion has been attempted for every
\* listed interface of the fabric's naming, whatever the deletions before returned.
C15_TeardownBestEffort ==
    phase \in {"mesh", "serving", "exited"} =>
        \A iface \in listed : HasFabricPrefix(iface) => iface \in Attempted("LinkDel")

\* C16: at the return of every reroute call that succeeded, for the peer P whose
\* addresses it was given, local handling is disabled and every configured prefix
\* has exactly one route, to P's internal address of the prefix's family, whatever
\* the state was before.
C16_RerouteReplaces ==
    [][\A h \in Handlers :
         (/\ pc[h] # "done" /\ pc'[h] = "done"
          /\ req[h].kind = "reroute"
          /\ err'[h] = "nil")
            => /\ localLink' = FALSE
               /\ routes' = ReroutedTo(node[h].ID).routes]_vars

\* C17: no step of the probe loop (the ticker firing, the probe of a peer and the
\* update of the table and the gauges) changes local handling, the routes of the
\* prefixes or the rerouting flag, whatever the probe comes to.
C17_TickKeepsRerouteState ==
    [][(TickStart \/ \E n \in PeerNames : \E o \in ProbeOutcomes : Probe(n, o))
          => UNCHANGED << localLink, routes, metricIsRerouting >>]_vars

\* The node is rerouted to B, and the running tick has measured B above the
\* latency threshold and dropped it from the candidates.
C17_Witness ==
    /\ Kernel = ReroutedTo(2)
    /\ pending = {"C"}
    /\ "B" \notin DOMAIN candidateNodes
    /\ metricNodeLatency["B"] > LatencyThreshold

\* C18: a tick that has begun reaches every peer: a peer leaves the set the tick
\* has still to probe only by being probed, one peer a step, whatever the probes
\* before came to; and the set is filled again only by the next tick, once it is
\* empty.
C18_TickReachesEveryPeer ==
    [][/\ \A n \in pending : n \notin pending' => \E o \in ProbeOutcomes : Probe(n, o)
       /\ pending' \subseteq pending \/ (pending = {} /\ pending' = PeerNames)]_vars

\* C19: every installed route of a configured prefix has as its gateway the
\* internal address of a configured node other than the local one; a reroute call
\* whose "to" names no configured node, or the local node, issues no kernel
\* operation: it installs no route and leaves local handling enabled.
C19_RoutesPointAtPeers ==
    /\ \A p \in PrefixSet : \A i \in DOMAIN routes[p] :
          \E n \in DOMAIN ConfigNodes :
             /\ ConfigNodes[n].ID # LocalID
             /\ routes[p][i] = internalIP(IF IsV4(p) THEN Prefix4 ELSE Prefix6,
                                          ConfigNodes[n].ID)
    /\ \A h \in Handlers :
          (/\ req[h].kind = "reroute"
           /\ req[h].to # ""
           /\ \/ req[h].to \notin DOMAIN ConfigNodes
              \/ LookupNode(req[h].to).ID = LocalID)
             => log[h] = << >>

\* C20: a reroute call whose first step, the disable of local handling, fails, and
\* which has therefore installed no route, returns with the rerouting flag at the
\* value it had when the call began: the flag is 1 only after a reroute call has
\* disabled local handling.
C20_FlagFollowsDisable ==
    \A h \in Handlers :
        (/\ pc[h] = "done"
         /\ req[h].kind = "reroute"
         /\ Len(log[h]) = 1
         /\ log[h][1].op = "LinkDel" /\ log[h][1].err # "")
            => metricIsRerouting = before[h].metric

====
